---- MODULE Spec2Model ----
(***************************************************************************)
(* Model of the commit-scheduling engine and the repository lifecycle of   *)
(* auto_commit_app: utils/human_patterns.py (CommitPatternGenerator),      *)
(* utils/scheduler_manager.py (SchedulerManager), agents/github_agent.py   *)
(* (GitHubAgent) and main.py (GitHubAIAgentApp).                           *)
(*                                                                         *)
(* Time is an integer number of seconds.  Every random draw of the code    *)
(* (random.randint / random.uniform / random.random) is a nondeterministic *)
(* choice over a small set holding the end points of the drawn range.      *)
(***************************************************************************)
EXTENDS Integers, Sequences, FiniteSets, TLC

(* ------------------------------ bounds -------------------------------- *)

\* largest commit count a generator configuration may ask for
MaxCount == 3
\* largest window, in hours, a generator configuration may ask for
MaxWindowHours == 1
\* start times handed to the generator are 0..MaxStart
MaxStart == 1
\* MIN_COMMITS_PER_DAY and MAX_COMMITS_PER_DAY of the application's settings
AppMinCount == 1
AppMaxCount == 2
\* commits a working copy can hold when the agent is set up
MaxInitHistory == 1
\* bootstrap recoveries one commit_and_push call is followed through
MaxRecoveries == 2
\* signals delivered to the process
MaxSignals == 1
\* the shortest commit cycle, in seconds
MinCycleSeconds == 1
\* cycles run on an agent on its own
MaxCycles == 2
\* commits of the schedule whose last entries are followed through
LateCommits == 10
\* calls made on a tracker on its own, and the windows it starts
MaxCalls == 4
MaxWindows == 2

(* ------------------------- program constants -------------------------- *)

SecondsPerHour == 3600
\* random.uniform(600, 2700)
BaseIntervalMin == 600
BaseIntervalMax == 2700
\* random.uniform(0.7, 1.3), in tenths
FactorMinTenths == 7
FactorMaxTenths == 13
\* random.randint(2, 4)
ClusterSizeMin == 2
ClusterSizeMax == 4
\* random.uniform(60, 300)
ClusterGapMin == 60
ClusterGapMax == 300
\* random.uniform(-120, 120)
JitterSeconds == 120
\* config/settings.py
COMMIT_WINDOW_HOURS == 8
\* random.uniform(-30, 30) and max(1, ...) of wait_for_next_commit
WaitJitterSeconds == 30
MinWaitSeconds == 1
\* asyncio.sleep(10) before the scheduled commits, asyncio.sleep(5) after an error
StartPauseSeconds == 10
ErrorPauseSeconds == 5

(* --------------------------- random draws ----------------------------- *)

BaseIntervals == {BaseIntervalMin, BaseIntervalMax}
Factors == {FactorMinTenths, FactorMaxTenths}
ClusterSizes == ClusterSizeMin..ClusterSizeMax
ClusterGaps == {ClusterGapMin, ClusterGapMax}
Jitters == {0 - JitterSeconds, JitterSeconds}
\* random.uniform(0, self.window_hours * 3600)
PadOffsets(hours) == {0, hours * SecondsPerHour}

(* ------------------------------ state --------------------------------- *)

VARIABLES
    \* CommitPatternGenerator
    min_commits, max_commits, window_hours, randomize,
    \* the count the last generate_commit_schedule call settled on
    num_commits,
    \* SchedulerManager
    schedule, next_commit_idx, start_time, total_commits, successful_commits,
    \* GitHubAgent: the handle and the two lifecycle flags
    repo, is_empty_repo, initial_commit_done,
    \* the working copy: local commits, uncommitted changes, a remote configured,
    \* the README.md it holds
    history, dirty, has_remote, readme,
    \* how _setup went: the branch it took and what it was handed
    setup,
    \* GitHubAIAgentApp: the flag, the position of run(), the clock
    running, pc, now, wake_at,
    \* signals delivered so far
    signals,
    \* the faults git, the file system and the providers can show in this run
    faults,
    \* what the last commit cycle reported and did
    outcome,
    \* timestamps wait_for_next_commit returned, cycles begun, cycles in flight
    waits_returned, cycles_started, in_flight,
    \* a caller of the tracker on its own: the calls it made, the last of them
    \* with its argument and result, the snapshot before it when both calls
    \* were get_schedule_progress and the clock at each, the windows started,
    \* the marks since the window began
    caller,
    \* the report of the last health_check() of a caller of the agent
    health,
    \* the text the provider answered and the message
    \* generate_commit_message made of it
    generated

genVars == <<min_commits, max_commits, window_hours, randomize>>
trackerVars == <<schedule, next_commit_idx, start_time, total_commits, successful_commits>>
agentVars == <<repo, is_empty_repo, initial_commit_done, history, dirty, has_remote,
               readme, setup>>
appVars == <<running, pc, now, wake_at, signals>>
obsVars == <<outcome, waits_returned, cycles_started, in_flight>>
callVars == <<caller, health, generated>>
vars == <<genVars, num_commits, trackerVars, agentVars, appVars, faults, obsVars,
          callVars>>

\* Python's None, and a value that is not None
None == <<>>
Some(x) == <<x>>

\* _setup not run, health_check and generate_commit_message not called
NoSetup ==
    [path |-> "none", ok |-> FALSE, local |-> FALSE, url |-> FALSE, had |-> 0,
     listed |-> FALSE, remote |-> "none"]
NoHealth ==
    [called |-> FALSE, raised |-> FALSE, failed |-> "none", error |-> FALSE,
     branch |-> FALSE, commit_count |-> FALSE]
NoMessage == [called |-> FALSE, response |-> <<>>, message |-> <<>>]

\* no call made yet
NoCall ==
    [n |-> 0, op |-> "none", success |-> FALSE, start |-> 0, result |-> None,
     at |-> 0, before |-> None, before_at |-> 0, windows |-> 0, marks |-> 0]

(* ---------------- CommitPatternGenerator.generate_commit_schedule ----- *)

\* base_interval * random_factor
Interval(base, factor) == (base * factor) \div 10

\* start_time + timedelta(hours=self.window_hours)
EndTime(start) == start + window_hours * SecondsPerHour

\* an even schedule counted from one: range(1, num_commits + 1)
EvenScheduleFromOne(start) ==
    [k \in 1..max_commits |->
        start + (k * window_hours * SecondsPerHour) \div max_commits]

\* randomize = False: max_commits timestamps, i * interval after the start
EvenSchedule(start) ==
    [k \in 1..max_commits |->
        start + ((k - 1) * window_hours * SecondsPerHour) \div max_commits]

\* the inner for-loop of a cluster: <<commit_times, current_time>> after it
RECURSIVE ClusterFrom(_, _, _, _, _)
ClusterFrom(times, cur, left, num, end) ==
    IF left = 0 \/ Len(times) >= num \/ cur >= end
    THEN {<<times, cur>>}
    ELSE UNION {ClusterFrom(Append(times, cur), cur + g, left - 1, num, end) :
                    g \in ClusterGaps}

\* the forward walk: every commit_times the while-loop can end with
RECURSIVE WalkFrom(_, _, _, _)
WalkFrom(times, cur, num, end) ==
    IF Len(times) < num /\ cur < end
    THEN UNION (
           {WalkFrom(Append(times, cur), cur + Interval(b, f), num, end) :
                b \in BaseIntervals, f \in Factors}
           \cup
           {UNION {WalkFrom(p[1], p[2], num, end) :
                       p \in ClusterFrom(times, cur, k, num, end)} :
                k \in ClusterSizes})
    ELSE {times}

\* commit_times[:num_commits]
Truncate(times, num) ==
    IF Len(times) > num THEN SubSeq(times, 1, num) ELSE times

\* no padding at all
PadNothing(times, num, start) == {times}

\* fill the remaining slots with random times of the window
RECURSIVE PadTo(_, _, _)
PadTo(times, num, start) ==
    IF Len(times) < num
    THEN UNION {PadTo(Append(times, start + p), num, start) :
                    p \in PadOffsets(window_hours)}
    ELSE {times}

\* commit_times.sort()
SortTimes(times) == SortSeq(times, LAMBDA a, b : a < b)

\* a jitter kept whether or not it leaves the window
JitterUnchecked(time, jitter, start, end) == time + jitter

\* one timestamp of the jitter loop
JitterOne(time, jitter, start, end) ==
    IF start <= time + jitter /\ time + jitter <= end
    THEN time + jitter
    ELSE time

\* the jitter loop: every jittered_times it can produce
JitterAll(times, start, end) ==
    {[k \in 1..Len(times) |-> JitterOne(times[k], js[k], start, end)] :
        js \in [1..Len(times) -> Jitters]}

\* the schedules a call can return once num_commits is settled
GenerateCommitSchedule(start, num) ==
    IF ~randomize
    THEN {EvenSchedule(start)}
    ELSE UNION {JitterAll(SortTimes(padded), start, EndTime(start)) :
                  padded \in UNION {PadTo(Truncate(walked, num), num, start) :
                      walked \in WalkFrom(<<>>, start, num, EndTime(start))}}

\* random.randint(self.min_commits, self.max_commits), or max_commits
CommitCounts == IF randomize THEN min_commits..max_commits ELSE {max_commits}

(* ---------------------------- SchedulerManager ------------------------ *)

GenerateNewSchedule(start_from) ==
    \E num \in CommitCounts :
      \E s \in GenerateCommitSchedule(start_from, num) :
        /\ num_commits' = num
        /\ schedule' = s
        /\ next_commit_idx' = 0
        /\ start_time' = Some(start_from)
        /\ UNCHANGED <<genVars, total_commits, successful_commits>>

\* get_next_commit_time
GetNextCommitTime ==
    IF next_commit_idx < Len(schedule)
    THEN Some(schedule[next_commit_idx + 1])
    ELSE None

\* a should_stop that looks at the window alone
ShouldStopWindowOnly(t) ==
    IF start_time = None
    THEN FALSE
    ELSE t >= start_time[1] + COMMIT_WINDOW_HOURS * SecondsPerHour

\* a should_stop that lets the last instant of the window pass
ShouldStopStrict(t) ==
    IF start_time = None
    THEN FALSE
    ELSE \/ t > start_time[1] + COMMIT_WINDOW_HOURS * SecondsPerHour
         \/ next_commit_idx >= Len(schedule)

\* should_stop, read at clock time t
ShouldStop(t) ==
    IF start_time = None
    THEN FALSE
    ELSE \/ t >= start_time[1] + COMMIT_WINDOW_HOURS * SecondsPerHour
         \/ next_commit_idx >= Len(schedule)

\* a mark_commit_completed that leaves a failed commit unmarked
MarkOnlySuccess(success) ==
    IF success
    THEN /\ next_commit_idx' = next_commit_idx + 1
         /\ total_commits' = total_commits + 1
         /\ successful_commits' = successful_commits + 1
         /\ UNCHANGED <<schedule, start_time>>
    ELSE UNCHANGED trackerVars

\* a mark_commit_completed that counts every commit as successful
MarkAllSuccessful(success) ==
    /\ next_commit_idx' = next_commit_idx + 1
    /\ total_commits' = total_commits + 1
    /\ successful_commits' = successful_commits + 1
    /\ UNCHANGED <<schedule, start_time>>

\* a mark_commit_completed that moves the cursor past two entries
MarkTwice(success) ==
    /\ next_commit_idx' = next_commit_idx + 2
    /\ total_commits' = total_commits + 1
    /\ successful_commits' =
         IF success THEN successful_commits + 1 ELSE successful_commits
    /\ UNCHANGED <<schedule, start_time>>

\* mark_commit_completed
MarkCommitCompleted(success) ==
    /\ next_commit_idx' = next_commit_idx + 1
    /\ total_commits' = total_commits + 1
    /\ successful_commits' =
         IF success THEN successful_commits + 1 ELSE successful_commits
    /\ UNCHANGED <<schedule, start_time>>

\* wait_for_next_commit: the seconds it sleeps for a jitter, next_time > now
Max(a, b) == IF a >= b THEN a ELSE b
WaitSeconds(next_time, t, jitter) == Max(MinWaitSeconds, (next_time - t) + jitter)
WaitJitters == {0 - WaitJitterSeconds, WaitJitterSeconds}

\* [t for t in self.schedule if t > now]
Upcoming(t) == SelectSeq(schedule, LAMBDA x : x > t)

\* a get_schedule_progress whose completed counts the entries the clock
\* has passed
ProgressCompletedByClock(t) ==
    [total_scheduled |-> Len(schedule),
     completed |-> Len(schedule) - Len(Upcoming(t)),
     remaining |-> Len(Upcoming(t)),
     upcoming |-> Len(Upcoming(t)),
     successful |-> successful_commits,
     next_commit |-> IF Upcoming(t) # <<>> THEN Some(Head(Upcoming(t))) ELSE None,
     window_end |-> IF start_time # None
                    THEN Some(start_time[1] + COMMIT_WINDOW_HOURS * SecondsPerHour)
                    ELSE None]

\* a get_schedule_progress whose remaining counts the entries still ahead
\* of the clock
ProgressByClock(t) ==
    [total_scheduled |-> Len(schedule),
     completed |-> next_commit_idx,
     remaining |-> Len(Upcoming(t)),
     upcoming |-> Len(Upcoming(t)),
     successful |-> successful_commits,
     next_commit |-> IF Upcoming(t) # <<>> THEN Some(Head(Upcoming(t))) ELSE None,
     window_end |-> IF start_time # None
                    THEN Some(start_time[1] + COMMIT_WINDOW_HOURS * SecondsPerHour)
                    ELSE None]

\* get_schedule_progress, read at clock time t
GetScheduleProgress(t) ==
    [total_scheduled |-> Len(schedule),
     completed |-> next_commit_idx,
     remaining |-> Len(schedule) - next_commit_idx,
     upcoming |-> Len(Upcoming(t)),
     successful |-> successful_commits,
     next_commit |-> IF Upcoming(t) # <<>> THEN Some(Head(Upcoming(t))) ELSE None,
     window_end |-> IF start_time # None
                    THEN Some(start_time[1] + COMMIT_WINDOW_HOURS * SecondsPerHour)
                    ELSE None]

(* ------------------------------ GitHubAgent --------------------------- *)

\* the messages a cycle reports: the sanitized answer of the provider, the
\* f"Update: {now}" that stands in for an empty one
CommitMessage == "commit message"
DefaultMessage == "Update: timestamp"
LocalOnly == "commit message (local only)"
NoChanges == "No changes to commit"
BootstrapFailed == "Failed to create initial commit"
PushFailed == "Initial commit created but push failed"
NotInitialized == "Repository not initialized"
\* str(e) of the errors git and the file system raise
HeadError == "HEAD did not resolve"
GitError == "git command failed"
PushError == "push failed"
UpstreamError == "push with upstream failed"
InitialCommitError == "initial commit error"
UnexpectedError == "unexpected error"

\* the agent and its working copy as one value
Agent ==
    [repo |-> repo, is_empty_repo |-> is_empty_repo,
     initial_commit_done |-> initial_commit_done,
     history |-> history, dirty |-> dirty, has_remote |-> has_remote,
     readme |-> readme]

\* what one cycle reports: the agent after it, (success, message), and what
\* it did: the first attempt hit the HEAD error, the first recovery created
\* the initial commit, the number of times the recovery path was entered,
\* origin.push was called, git status showed nothing to commit at the first
\* attempt, how pull_latest ended, what the content provider and the text
\* provider answered
Report(a, ok, msg) ==
    [agent |-> a, success |-> ok, message |-> msg, head_error |-> FALSE,
     bootstrap_created |-> FALSE, recoveries |-> 0, push_attempted |-> FALSE,
     nothing_staged |-> FALSE, pull |-> "uncalled", content |-> "uncalled",
     llm |-> "uncalled", pushes |-> 0, upstream_pushes |-> 0,
     first_push |-> "none", last_push |-> "none"]

\* where git fails in one commit_and_push attempt: with the HEAD error when
\* staging or committing; with another GitCommandError when committing or
\* pushing; with no upstream at the first push, the second push passing or
\* failing; with an exception that is no GitCommandError
HeadFaults == {"head_stage", "head_commit"}
CommitFaults == {"git_commit", "git_push", "no_upstream", "no_upstream_fail",
                 "unexpected"}
\* an exception before anything is committed (raised by the pull in a
\* normal cycle, by the file system or git in the first cycle of an empty
\* repository), the write leaving the working tree as it was, the push of
\* the first commit failing
CycleFaults == {"raised", "no_file", "push"}
\* the pull failing with a GitCommandError, the content provider yielding
\* nothing, the text provider answering with empty text
ProviderFaults == {"pull_git", "no_content", "llm_empty"}
SetupFaults == {"setup"}
\* a README.md of the user's in the folder the agent is set up on
ReadmeFaults == {"readme"}
AllFaults ==
    CycleFaults \cup CommitFaults \cup HeadFaults \cup ProviderFaults \cup SetupFaults

\* create_initial_commit: the agent after it
CreateInitialCommit(a, how) ==
    IF how = "ok"
    THEN [a EXCEPT !.history = @ + 1, !.dirty = FALSE, !.readme = "initial",
                   !.is_empty_repo = FALSE, !.initial_commit_done = TRUE]
    ELSE [a EXCEPT !.dirty = TRUE, !.readme = "initial"]

\* what one commit_and_push attempt leaves when origin.push was not reached
NotPushed(a, raised, ok, msg, nothing) ==
    [agent |-> a, pushed |-> FALSE, raised |-> raised, success |-> ok,
     message |-> msg, nothing_staged |-> nothing,
     pushes |-> 0, upstream_pushes |-> 0, first_push |-> "none",
     last_push |-> "none"]

\* a commit_and_push that commits without reading the status
TryCommitUnchecked(a, fault) ==
    LET c == [a EXCEPT !.history = @ + 1, !.dirty = FALSE] IN
    IF c.has_remote
    THEN [agent |-> c, pushed |-> TRUE, raised |-> "", success |-> TRUE,
          message |-> CommitMessage, nothing_staged |-> ~a.dirty,
          pushes |-> 1, upstream_pushes |-> 0, first_push |-> "ok",
          last_push |-> "ok"]
    ELSE NotPushed(c, "", TRUE, LocalOnly, ~a.dirty)

\* a commit_and_push that gives up at the first push, whatever its error
TryPushOnce(a, fault) ==
    IF fault = "head_stage"
    THEN NotPushed(a, "head", FALSE, HeadError, FALSE)
    ELSE IF ~a.dirty
    THEN NotPushed(a, "", FALSE, NoChanges, TRUE)
    ELSE IF fault = "head_commit"
    THEN NotPushed(a, "head", FALSE, HeadError, FALSE)
    ELSE IF fault = "git_commit"
    THEN NotPushed(a, "git", FALSE, GitError, FALSE)
    ELSE IF fault = "unexpected"
    THEN NotPushed(a, "other", FALSE, UnexpectedError, FALSE)
    ELSE LET c == [a EXCEPT !.history = @ + 1, !.dirty = FALSE] IN
         IF ~c.has_remote
         THEN NotPushed(c, "", TRUE, LocalOnly, FALSE)
         ELSE IF fault \in {"git_push", "no_upstream", "no_upstream_fail"}
         THEN [agent |-> c, pushed |-> TRUE, raised |-> "git", success |-> FALSE,
               message |-> PushError, nothing_staged |-> FALSE,
               pushes |-> 1, upstream_pushes |-> 0,
               first_push |-> IF fault = "git_push" THEN "error" ELSE "no_upstream",
               last_push |-> "error"]
         ELSE [agent |-> c, pushed |-> TRUE, raised |-> "", success |-> TRUE,
               message |-> CommitMessage, nothing_staged |-> FALSE,
               pushes |-> 1, upstream_pushes |-> 0, first_push |-> "ok",
               last_push |-> "ok"]

\* a commit_and_push that takes the commit back when the push fails
TryPushOrUndo(a, fault) ==
    IF fault = "head_stage"
    THEN NotPushed(a, "head", FALSE, HeadError, FALSE)
    ELSE IF ~a.dirty
    THEN NotPushed(a, "", FALSE, NoChanges, TRUE)
    ELSE IF fault = "head_commit"
    THEN NotPushed(a, "head", FALSE, HeadError, FALSE)
    ELSE IF fault = "git_commit"
    THEN NotPushed(a, "git", FALSE, GitError, FALSE)
    ELSE IF fault = "unexpected"
    THEN NotPushed(a, "other", FALSE, UnexpectedError, FALSE)
    ELSE LET c == [a EXCEPT !.history = @ + 1, !.dirty = FALSE] IN
         IF ~c.has_remote
         THEN NotPushed(c, "", TRUE, LocalOnly, FALSE)
         ELSE IF fault = "git_push"
         THEN [agent |-> a, pushed |-> TRUE, raised |-> "git", success |-> FALSE,
               message |-> PushError, nothing_staged |-> FALSE,
               pushes |-> 1, upstream_pushes |-> 0, first_push |-> "error",
               last_push |-> "error"]
         ELSE IF fault = "no_upstream_fail"
         THEN [agent |-> c, pushed |-> TRUE, raised |-> "git", success |-> FALSE,
               message |-> UpstreamError, nothing_staged |-> FALSE,
               pushes |-> 2, upstream_pushes |-> 1, first_push |-> "no_upstream",
               last_push |-> "error"]
         ELSE IF fault = "no_upstream"
         THEN [agent |-> c, pushed |-> TRUE, raised |-> "", success |-> TRUE,
               message |-> CommitMessage, nothing_staged |-> FALSE,
               pushes |-> 2, upstream_pushes |-> 1, first_push |-> "no_upstream",
               last_push |-> "ok"]
         ELSE [agent |-> c, pushed |-> TRUE, raised |-> "", success |-> TRUE,
               message |-> CommitMessage, nothing_staged |-> FALSE,
               pushes |-> 1, upstream_pushes |-> 0, first_push |-> "ok",
               last_push |-> "ok"]

\* commit_and_push up to its except clauses: stage, status, commit, push,
\* and the push with set_upstream after "no upstream branch". raised is ""
\* when it returns, else the kind of error raised
TryCommitAndPush(a, fault) ==
    IF fault = "head_stage"
    THEN NotPushed(a, "head", FALSE, HeadError, FALSE)
    ELSE IF ~a.dirty
    THEN NotPushed(a, "", FALSE, NoChanges, TRUE)
    ELSE IF fault = "head_commit"
    THEN NotPushed(a, "head", FALSE, HeadError, FALSE)
    ELSE IF fault = "git_commit"
    THEN NotPushed(a, "git", FALSE, GitError, FALSE)
    ELSE IF fault = "unexpected"
    THEN NotPushed(a, "other", FALSE, UnexpectedError, FALSE)
    ELSE LET c == [a EXCEPT !.history = @ + 1, !.dirty = FALSE] IN
         IF ~c.has_remote
         THEN NotPushed(c, "", TRUE, LocalOnly, FALSE)
         ELSE IF fault = "git_push"
         THEN [agent |-> c, pushed |-> TRUE, raised |-> "git", success |-> FALSE,
               message |-> PushError, nothing_staged |-> FALSE,
               pushes |-> 1, upstream_pushes |-> 0, first_push |-> "error",
               last_push |-> "error"]
         ELSE IF fault = "no_upstream_fail"
         THEN [agent |-> c, pushed |-> TRUE, raised |-> "git", success |-> FALSE,
               message |-> UpstreamError, nothing_staged |-> FALSE,
               pushes |-> 2, upstream_pushes |-> 1, first_push |-> "no_upstream",
               last_push |-> "error"]
         ELSE IF fault = "no_upstream"
         THEN [agent |-> c, pushed |-> TRUE, raised |-> "", success |-> TRUE,
               message |-> CommitMessage, nothing_staged |-> FALSE,
               pushes |-> 2, upstream_pushes |-> 1, first_push |-> "no_upstream",
               last_push |-> "ok"]
         ELSE [agent |-> c, pushed |-> TRUE, raised |-> "", success |-> TRUE,
               message |-> CommitMessage, nothing_staged |-> FALSE,
               pushes |-> 1, upstream_pushes |-> 0, first_push |-> "ok",
               last_push |-> "ok"]

\* commit_and_push with its except clauses; script holds, per attempt, where
\* git fails and how create_initial_commit ends
RECURSIVE CommitAndPush(_, _)
CommitAndPush(a, script) ==
    LET step == Head(script)
        try == TryCommitAndPush(a, step.fault)
    IN  IF try.raised = "head"
        THEN LET believed == [try.agent EXCEPT !.is_empty_repo = TRUE]
                 after == CreateInitialCommit(believed, step.bootstrap)
             IN  IF step.bootstrap = "ok"
                 THEN LET again == CommitAndPush(after, Tail(script))
                      IN  [again EXCEPT !.head_error = TRUE,
                                        !.bootstrap_created = TRUE,
                                        !.recoveries = @ + 1,
                                        !.nothing_staged = FALSE]
                 ELSE [Report(after, FALSE, BootstrapFailed) EXCEPT
                           !.head_error = TRUE,
                           !.recoveries = 1]
        ELSE [Report(try.agent, try.success, try.message) EXCEPT
                  !.push_attempted = try.pushed,
                  !.nothing_staged = try.nothing_staged,
                  !.pushes = try.pushes,
                  !.upstream_pushes = try.upstream_pushes,
                  !.first_push = try.first_push,
                  !.last_push = try.last_push]

\* the scripts commit_and_push is followed through: every attempt but the
\* last recovers, the last does not start a further attempt
Recovering == [fault : HeadFaults \cap faults, bootstrap : {"ok"}]
Ending == [fault : {"none"} \cup (CommitFaults \cap faults), bootstrap : {"ok"}]
              \cup [fault : HeadFaults \cap faults, bootstrap : {"fail"}]
RECURSIVE ScriptsOf(_)
ScriptsOf(n) ==
    IF n = 0
    THEN {<<e>> : e \in Ending}
    ELSE ScriptsOf(n - 1)
           \cup {<<r>> \o s : r \in Recovering,
                              s \in {x \in ScriptsOf(n - 1) : Len(x) = n}}
Scripts == ScriptsOf(MaxRecoveries)


\* what the environment does to one cycle: the write changes the working
\* tree or not (create_file fails, or writes what is committed already), the
\* cycle's own fault, the script of commit_and_push, how the pull ends, what
\* the two providers answer
FileOutcomes == IF "no_file" \in faults THEN BOOLEAN ELSE {TRUE}
\* content_agent.execute(): (content, filename), or nothing
ContentOutcomes == {"article"} \cup (IF "no_content" \in faults THEN {"none"} ELSE {})
\* llm_manager.generate(): a text, or "" when every provider failed
LlmOutcomes == {"text"} \cup (IF "llm_empty" \in faults THEN {"empty"} ELSE {})
\* pull_latest: skipped, passed, GitCommandError with or without "no upstream
\* branch" in it, an exception that is no GitCommandError
PullOutcomes(a) ==
    IF a.is_empty_repo \/ ~a.has_remote
    THEN {"skipped"}
    ELSE {"ok"}
           \cup (IF "pull_git" \in faults THEN {"no_upstream", "git_error"} ELSE {})
           \cup (IF "raised" \in faults THEN {"raised"} ELSE {})
CycleEnvs(a) ==
    IF a.is_empty_repo
    THEN [file_ok : FileOutcomes,
          fault : {"none"} \cup ({"raised", "push"} \cap faults),
          script : {<<>>}, pull : {"uncalled"},
          content : ContentOutcomes, llm : LlmOutcomes]
    ELSE [file_ok : FileOutcomes, fault : {"none"}, script : Scripts,
          pull : PullOutcomes(a),
          content : ContentOutcomes, llm : LlmOutcomes]

\* generate_commit_message: the answer sanitized, or the default
MessageFor(env) == IF env.llm = "empty" THEN DefaultMessage ELSE CommitMessage

\* a report with what the providers answered in the cycle
Provided(r, env) == [r EXCEPT !.content = env.content, !.llm = env.llm]

\* the report of the empty-repository branch once it has looked at the
\* remotes: with one, one push with set_upstream, passing or failing
FirstPush(r, pushing, ok) ==
    [r EXCEPT !.push_attempted = pushing,
              !.pushes = IF pushing THEN 1 ELSE 0,
              !.upstream_pushes = IF pushing THEN 1 ELSE 0,
              !.first_push = IF ~pushing THEN "none"
                             ELSE IF ok THEN "ok" ELSE "error",
              !.last_push = IF ~pushing THEN "none"
                            ELSE IF ok THEN "ok" ELSE "error"]

\* a bootstrap branch that commits and never pushes
BootstrapLocalOnly(a, env) ==
    LET written == [a EXCEPT !.dirty = TRUE, !.readme = "standard"] IN
    IF env.fault = "raised"
    THEN Provided(Report(written, FALSE, UnexpectedError), env)
    ELSE Provided(Report([written EXCEPT !.history = @ + 1, !.dirty = FALSE,
                                         !.is_empty_repo = FALSE,
                                         !.initial_commit_done = TRUE],
                         TRUE, MessageFor(env)), env)

\* a bootstrap branch that sets the two flags only once the push has passed
BootstrapFlagsAfterPush(a, env) ==
    LET written == [a EXCEPT !.dirty = TRUE, !.readme = "standard"] IN
    IF env.fault = "raised"
    THEN Provided(Report(written, FALSE, UnexpectedError), env)
    ELSE LET c == [written EXCEPT !.history = @ + 1, !.dirty = FALSE]
             pushing == c.has_remote
         IN  IF pushing /\ env.fault = "push"
             THEN Provided(FirstPush(Report(c, FALSE, PushFailed), pushing, FALSE), env)
             ELSE Provided(FirstPush(Report([c EXCEPT !.is_empty_repo = FALSE,
                                                     !.initial_commit_done = TRUE],
                                           TRUE, MessageFor(env)),
                                    pushing, TRUE), env)

\* execute, the branch for an empty repository: content or placeholder,
\* commit message, README, first commit, push with the upstream set (the
\* remote is the origin that the clone or _initialize_new_repo created)
ExecuteBootstrap(a, env) ==
    LET written == [a EXCEPT !.dirty = TRUE, !.readme = "standard"] IN
    IF env.fault = "raised"
    THEN Provided(Report(written, FALSE, UnexpectedError), env)
    ELSE LET c == [written EXCEPT !.history = @ + 1, !.dirty = FALSE,
                                  !.is_empty_repo = FALSE,
                                  !.initial_commit_done = TRUE]
             pushing == c.has_remote
         IN  IF pushing /\ env.fault = "push"
             THEN Provided(FirstPush(Report(c, FALSE, PushFailed), pushing, FALSE), env)
             ELSE Provided(FirstPush(Report(c, TRUE, MessageFor(env)), pushing, TRUE), env)

\* a normal branch that gives the cycle up when the content agent yields
\* nothing
NormalNeedsContent(a, env) ==
    IF env.pull = "raised" \/ env.content = "none"
    THEN Provided([Report(a, FALSE, UnexpectedError) EXCEPT !.pull = env.pull], env)
    ELSE LET written == IF env.file_ok THEN [a EXCEPT !.dirty = TRUE] ELSE a
             result == CommitAndPush(written, env.script)
             told == IF result.success
                     THEN [result EXCEPT !.message = MessageFor(env)]
                     ELSE result
         IN  Provided([told EXCEPT !.pull = env.pull], env)

\* execute, the branch for a repository with history: pull (what it returns
\* is not read), content or placeholder, commit message, commit_and_push; a
\* success reports commit_message
ExecuteNormal(a, env) ==
    IF env.pull = "raised"
    THEN [Report(a, FALSE, UnexpectedError) EXCEPT !.pull = "raised"]
    ELSE LET written == IF env.file_ok THEN [a EXCEPT !.dirty = TRUE] ELSE a
             result == CommitAndPush(written, env.script)
             told == IF result.success
                     THEN [result EXCEPT !.message = MessageFor(env)]
                     ELSE result
         IN  Provided([told EXCEPT !.pull = env.pull], env)

\* GitHubAgent.execute: it never raises, every exception becomes a report
Execute(a, env) ==
    IF ~a.repo
    THEN Report(a, FALSE, NotInitialized)
    ELSE IF a.is_empty_repo
    THEN ExecuteBootstrap(a, env)
    ELSE ExecuteNormal(a, env)

\* the reports a cycle of agent a can end with
Reports(a) == {Execute(a, env) : env \in CycleEnvs(a)}

\* the agent's variables after a cycle that reported r
AgentBecomes(r) ==
    /\ repo' = r.agent.repo
    /\ is_empty_repo' = r.agent.is_empty_repo
    /\ initial_commit_done' = r.agent.initial_commit_done
    /\ history' = r.agent.history
    /\ dirty' = r.agent.dirty
    /\ has_remote' = r.agent.has_remote
    /\ readme' = r.agent.readme

\* the record kept of a cycle: the path it took and what it reported
Recorded(a, r) ==
    [path |-> IF ~a.repo THEN "none"
              ELSE IF a.is_empty_repo THEN "bootstrap" ELSE "normal",
     success |-> r.success, message |-> r.message,
     head_error |-> r.head_error, bootstrap_created |-> r.bootstrap_created,
     recoveries |-> r.recoveries, push_attempted |-> r.push_attempted,
     nothing_staged |-> r.nothing_staged, pull |-> r.pull,
     content |-> r.content, llm |-> r.llm,
     pushes |-> r.pushes, upstream_pushes |-> r.upstream_pushes,
     first_push |-> r.first_push, last_push |-> r.last_push]
NoOutcome == Recorded([repo |-> FALSE], Report(<<>>, FALSE, ""))


(* --------------------------- GitHubAIAgentApp ------------------------- *)

\* a commit cycle lasts a second, or as long as the whole window
CycleDurations == {MinCycleSeconds, COMMIT_WINDOW_HOURS * SecondsPerHour}

\* signal_handler: SIGINT or SIGTERM at any point of the run
SignalHandler ==
    /\ pc # "done"
    /\ signals < MaxSignals
    /\ running' = FALSE
    /\ signals' = signals + 1
    /\ UNCHANGED <<genVars, num_commits, trackerVars, agentVars,
                   pc, now, wake_at, faults, callVars, obsVars>>

\* what _setup meets: a .git folder at repo_path or none, a repo_url or
\* none, the history and the origin of the repository that is opened or
\* cloned, and which git calls fail: the clone, the opening, the listing of
\* the commits (an exception that is no ValueError), Repo.init, the adding
\* of the remote before ("kept") or after ("lost") the old origin is deleted
MayFail == IF "setup" \in faults THEN {TRUE, FALSE} ELSE {TRUE}
\* the README.md the folder holds before the setup: none, or one that is
\* not the agent's
Readmes == {"absent"} \cup (IF "readme" \in faults THEN {"other"} ELSE {})
SetupEnvs ==
    [local : BOOLEAN, url : BOOLEAN, had : 0..MaxInitHistory,
     origin : BOOLEAN, clone_ok : BOOLEAN, open_ok : MayFail,
     list_ok : MayFail, init_ok : MayFail,
     remote : {"added"} \cup (IF "setup" \in faults THEN {"kept", "lost"} ELSE {}),
     readme : Readmes]

\* an _initialize_new_repo that leaves is_empty_repo as __init__ set it
InitializeNewRepoNoFlag(env) ==
    [ok |-> env.init_ok, path |-> IF env.init_ok THEN "initialized" ELSE "failed",
     is_empty_repo |-> FALSE, history |-> 0,
     has_remote |-> env.init_ok /\ env.url /\ env.remote = "added",
     readme |-> env.readme,
     listed |-> FALSE]

\* _initialize_new_repo: Repo.init (on a folder that holds a repository it
\* keeps the history and the remotes), the remote when repo_url is set,
\* is_empty_repo; an exception of Repo.init is raised again
InitializeNewRepo(env) ==
    LET before == env.local /\ env.origin
        kept == IF env.local THEN env.had ELSE 0
    IN  IF ~env.init_ok
        THEN [ok |-> FALSE, path |-> "failed", is_empty_repo |-> FALSE,
              history |-> 0, has_remote |-> FALSE, readme |-> env.readme,
              listed |-> FALSE]
        ELSE [ok |-> TRUE, path |-> "initialized", is_empty_repo |-> TRUE,
              history |-> kept,
              has_remote |-> IF ~env.url THEN before
                             ELSE IF env.remote = "added" THEN TRUE
                             ELSE IF env.remote = "kept" THEN before
                             ELSE FALSE,
              readme |-> env.readme, listed |-> FALSE]

\* a setup that takes the repository for empty only when the commits were
\* listed and there are none
CheckHistoryOnly(env) == env.had = 0

\* _check_if_repo_empty: the commits counted, ValueError for none, and any
\* other exception taken for an empty repository
CheckIfRepoEmpty(env) == IF env.list_ok THEN env.had = 0 ELSE TRUE

\* _setup under BaseAgent.initialize: open the repository or clone it, look
\* at its history; on any exception _initialize_new_repo
Setup(env) ==
    IF env.local /\ env.open_ok
    THEN [ok |-> TRUE, path |-> "opened", is_empty_repo |-> CheckIfRepoEmpty(env),
          history |-> env.had, has_remote |-> env.origin, readme |-> env.readme,
          listed |-> env.list_ok]
    ELSE IF ~env.local /\ env.url /\ env.clone_ok
    THEN [ok |-> TRUE, path |-> "cloned", is_empty_repo |-> CheckIfRepoEmpty(env),
          history |-> env.had, has_remote |-> TRUE,
          readme |-> IF env.had = 0 THEN "absent" ELSE env.readme,
          listed |-> env.list_ok]
    ELSE InitializeNewRepo(env)

\* what initialize leaves of a setup: the path taken, what was met
SetUp(env, s) ==
    [path |-> s.path, ok |-> s.ok, local |-> env.local, url |-> env.url,
     had |-> s.history, listed |-> s.listed,
     remote |-> IF s.path = "initialized" /\ env.url THEN env.remote ELSE "none"]

\* initialize: the test of the LLM providers, the GitHub agent set up, the
\* content agent set up; the health report at its end is logged and kept
\* nowhere
Initialize ==
    /\ pc = "init"
    /\ \E llm_ok \in BOOLEAN, content_ok \in BOOLEAN, env \in SetupEnvs :
         LET s == Setup(env) IN
         IF llm_ok /\ s.ok
         THEN /\ repo' = TRUE
              /\ history' = s.history
              /\ is_empty_repo' = s.is_empty_repo
              /\ has_remote' = s.has_remote
              /\ readme' = s.readme
              /\ setup' = SetUp(env, s)
              /\ pc' = IF content_ok THEN "immediate" ELSE "done"
         ELSE /\ pc' = "done"
              /\ setup' = IF llm_ok THEN SetUp(env, s) ELSE setup
              /\ UNCHANGED <<repo, history, is_empty_repo, has_remote, readme>>
    /\ UNCHANGED <<genVars, num_commits, trackerVars,
                   initial_commit_done, dirty, running, now, wake_at, signals,
                   faults, callVars, obsVars>>

\* run: execute_single_commit, the immediate commit
ImmediateCommit ==
    /\ pc = "immediate"
    /\ \E r \in Reports(Agent) :
         /\ AgentBecomes(r)
         /\ outcome' = Recorded(Agent, r)
    /\ now' = now + MinCycleSeconds
    /\ pc' = "pause"
    /\ UNCHANGED <<genVars, num_commits, setup, trackerVars, running, wake_at,
                   signals, faults, callVars, waits_returned, cycles_started, in_flight>>

\* run: the pause; run_scheduled_commits up to its loop
StartScheduled ==
    /\ pc = "pause"
    /\ now' = now + StartPauseSeconds
    /\ GenerateNewSchedule(now + StartPauseSeconds)
    /\ running' = TRUE
    /\ pc' = "check"
    /\ UNCHANGED <<agentVars, wake_at, signals, faults, callVars, obsVars>>

\* a loop that gives up after a failed cycle
LoopStopsOnFailure ==
    /\ running /\ ~ShouldStop(now) /\ GetNextCommitTime # None
    /\ (total_commits > 0 => outcome.success)

\* the loop condition holds and wait_for_next_commit has a timestamp
LoopGoesOn == running /\ ~ShouldStop(now) /\ GetNextCommitTime # None

\* the loop ends: its condition fails, or wait_for_next_commit returns None
LoopExit ==
    /\ pc = "check"
    /\ ~LoopGoesOn
    /\ running' = FALSE
    /\ pc' = "done"
    /\ UNCHANGED <<genVars, num_commits, trackerVars, agentVars,
                   now, wake_at, signals, faults, callVars, obsVars>>

\* wait_for_next_commit returned a timestamp and execute is called
BeginCycle ==
    /\ pc' = "executing"
    /\ waits_returned' = waits_returned + 1
    /\ cycles_started' = cycles_started + 1
    /\ in_flight' = in_flight + 1

\* wait_for_next_commit: the entry is due or overdue, no sleep
WaitDue ==
    /\ pc = "check"
    /\ LoopGoesOn
    /\ GetNextCommitTime[1] <= now
    /\ BeginCycle
    /\ UNCHANGED <<genVars, num_commits, trackerVars, agentVars,
                   running, now, wake_at, signals, faults, callVars, outcome>>

\* wait_for_next_commit: asyncio.sleep(wait_seconds) begins
WaitSleep ==
    /\ pc = "check"
    /\ LoopGoesOn
    /\ GetNextCommitTime[1] > now
    /\ \E jitter \in WaitJitters :
         wake_at' = now + WaitSeconds(GetNextCommitTime[1], now, jitter)
    /\ pc' = "sleeping"
    /\ UNCHANGED <<genVars, num_commits, trackerVars, agentVars,
                   running, now, signals, faults, callVars, obsVars>>

\* asyncio.sleep returns when its delay is over, whatever running is
WakeUp ==
    /\ pc = "sleeping"
    /\ now' = wake_at
    /\ BeginCycle
    /\ UNCHANGED <<genVars, num_commits, trackerVars, agentVars,
                   running, wake_at, signals, faults, callVars, outcome>>

\* execute returns, mark_commit_completed, back to the loop condition.
\* execute turns every exception into a report and nothing cancels the task
\* (the handlers of __init__ replace the default ones), so the loop's own
\* except clauses are never entered
FinishCycle ==
    /\ pc = "executing"
    /\ \E r \in Reports(Agent) :
         /\ AgentBecomes(r)
         /\ outcome' = Recorded(Agent, r)
         /\ MarkCommitCompleted(r.success)
    /\ \E d \in CycleDurations : now' = now + d
    /\ in_flight' = in_flight - 1
    /\ pc' = "check"
    /\ UNCHANGED <<genVars, num_commits, setup, running, wake_at,
                   signals, faults, callVars, waits_returned, cycles_started>>

\* the faults followed through a whole run of the application: a cycle
\* fails by an exception, for want of changes, or at its push
AppFaults == {"raised", "no_file", "git_push"}

\* the state after GitHubAIAgentApp(repo_url): SchedulerManager() built from
\* the settings, no agent yet, the handlers installed
Init ==
    /\ min_commits = AppMinCount
    /\ max_commits = AppMaxCount
    /\ window_hours = COMMIT_WINDOW_HOURS
    /\ randomize = TRUE
    /\ num_commits = 0
    /\ schedule = <<>>
    /\ next_commit_idx = 0
    /\ start_time = None
    /\ total_commits = 0
    /\ successful_commits = 0
    /\ repo = FALSE
    /\ is_empty_repo = FALSE
    /\ initial_commit_done = FALSE
    /\ history = 0
    /\ dirty = FALSE
    /\ has_remote = FALSE
    /\ readme = "absent"
    /\ setup = NoSetup
    /\ running = FALSE
    /\ pc = "init"
    /\ now = 0
    /\ wake_at = 0
    /\ signals = 0
    /\ faults = AppFaults
    /\ outcome = NoOutcome
    /\ waits_returned = 0
    /\ cycles_started = 0
    /\ in_flight = 0
    /\ caller = NoCall
    /\ health = NoHealth
    /\ generated = NoMessage

Next ==
    \/ SignalHandler
    \/ Initialize
    \/ ImmediateCommit
    \/ StartScheduled
    \/ LoopExit
    \/ WaitDue
    \/ WaitSleep
    \/ WakeUp
    \/ FinishCycle

Spec == Init /\ [][Next]_vars

(* --------------------------- the agent on its own --------------------- *)

\* GitHubAgent(repo_url, llm_manager), every fault possible
AgentInit ==
    /\ min_commits = AppMinCount
    /\ max_commits = AppMaxCount
    /\ window_hours = COMMIT_WINDOW_HOURS
    /\ randomize = TRUE
    /\ num_commits = 0
    /\ schedule = <<>>
    /\ next_commit_idx = 0
    /\ start_time = None
    /\ total_commits = 0
    /\ successful_commits = 0
    /\ repo = FALSE
    /\ is_empty_repo = FALSE
    /\ initial_commit_done = FALSE
    /\ history = 0
    /\ dirty = FALSE
    /\ has_remote = FALSE
    /\ readme = "absent"
    /\ setup = NoSetup
    /\ running = FALSE
    /\ pc = "init"
    /\ now = 0
    /\ wake_at = 0
    /\ signals = 0
    /\ faults = AllFaults
    /\ outcome = NoOutcome
    /\ waits_returned = 0
    /\ cycles_started = 0
    /\ in_flight = 0
    /\ caller = NoCall
    /\ health = NoHealth
    /\ generated = NoMessage

\* execute() on the agent that initialize() set up, cycle after cycle
CallExecute ==
    /\ pc = "immediate"
    /\ cycles_started < MaxCycles
    /\ \E r \in Reports(Agent) :
         /\ AgentBecomes(r)
         /\ outcome' = Recorded(Agent, r)
    /\ cycles_started' = cycles_started + 1
    /\ UNCHANGED <<genVars, num_commits, setup, trackerVars, appVars, faults, callVars,
                   waits_returned, in_flight>>

AgentNext == Initialize \/ CallExecute

AgentSpec == AgentInit /\ [][AgentNext]_vars

\* the agent on a folder that may hold a README.md of the user's
ReadmeInit ==
    /\ min_commits = AppMinCount
    /\ max_commits = AppMaxCount
    /\ window_hours = COMMIT_WINDOW_HOURS
    /\ randomize = TRUE
    /\ num_commits = 0
    /\ schedule = <<>>
    /\ next_commit_idx = 0
    /\ start_time = None
    /\ total_commits = 0
    /\ successful_commits = 0
    /\ repo = FALSE
    /\ is_empty_repo = FALSE
    /\ initial_commit_done = FALSE
    /\ history = 0
    /\ dirty = FALSE
    /\ has_remote = FALSE
    /\ readme = "absent"
    /\ setup = NoSetup
    /\ running = FALSE
    /\ pc = "init"
    /\ now = 0
    /\ wake_at = 0
    /\ signals = 0
    /\ faults = ReadmeFaults \cup CycleFaults
    /\ outcome = NoOutcome
    /\ waits_returned = 0
    /\ cycles_started = 0
    /\ in_flight = 0
    /\ caller = NoCall
    /\ health = NoHealth
    /\ generated = NoMessage

ReadmeSpec == ReadmeInit /\ [][AgentNext]_vars

\* where the introspection of health_check fails: nowhere, while the status
\* is put together, at active_branch.name, at the count of the commits
HealthFaults == {"none", "status", "branch", "count"}

\* health_check: the status; for a repository with history the branch and
\* the commit count, whose exceptions are passed over; any other exception
\* becomes the error field. failed is the step that did fail
HealthCheck(a, fault) ==
    LET inner == a.repo /\ ~a.is_empty_repo IN
    IF fault = "status"
    THEN [called |-> TRUE, raised |-> FALSE, failed |-> "status", error |-> TRUE,
          branch |-> FALSE, commit_count |-> FALSE]
    ELSE IF inner /\ fault = "branch"
    THEN [called |-> TRUE, raised |-> FALSE, failed |-> "branch", error |-> FALSE,
          branch |-> FALSE, commit_count |-> FALSE]
    ELSE IF inner /\ fault = "count"
    THEN [called |-> TRUE, raised |-> FALSE, failed |-> "count", error |-> FALSE,
          branch |-> TRUE, commit_count |-> FALSE]
    ELSE [called |-> TRUE, raised |-> FALSE, failed |-> "none", error |-> FALSE,
          branch |-> inner, commit_count |-> inner]

\* health_check() on the agent, at any time after its construction
CallHealthCheck ==
    /\ pc \in {"init", "immediate"}
    /\ \E fault \in HealthFaults : health' = HealthCheck(Agent, fault)
    /\ UNCHANGED <<genVars, num_commits, trackerVars, agentVars, appVars, faults,
                   obsVars, caller, generated>>

\* the agent and a caller of its health_check
HealthInit ==
    /\ min_commits = AppMinCount
    /\ max_commits = AppMaxCount
    /\ window_hours = COMMIT_WINDOW_HOURS
    /\ randomize = TRUE
    /\ num_commits = 0
    /\ schedule = <<>>
    /\ next_commit_idx = 0
    /\ start_time = None
    /\ total_commits = 0
    /\ successful_commits = 0
    /\ repo = FALSE
    /\ is_empty_repo = FALSE
    /\ initial_commit_done = FALSE
    /\ history = 0
    /\ dirty = FALSE
    /\ has_remote = FALSE
    /\ readme = "absent"
    /\ setup = NoSetup
    /\ running = FALSE
    /\ pc = "init"
    /\ now = 0
    /\ wake_at = 0
    /\ signals = 0
    /\ faults = SetupFaults \cup CycleFaults
    /\ outcome = NoOutcome
    /\ waits_returned = 0
    /\ cycles_started = 0
    /\ in_flight = 0
    /\ caller = NoCall
    /\ health = NoHealth
    /\ generated = NoMessage

HealthNext == Initialize \/ CallExecute \/ CallHealthCheck

HealthSpec == HealthInit /\ [][HealthNext]_vars

(* ------------------- the generator and tracker on their own ----------- *)

\* CommitPatternGenerator(min, max, hours, randomize) in a fresh tracker
GenInit ==
    /\ min_commits \in 1..MaxCount
    /\ max_commits \in min_commits..MaxCount
    /\ window_hours \in 1..MaxWindowHours
    /\ randomize \in BOOLEAN
    /\ num_commits = 0
    /\ schedule = <<>>
    /\ next_commit_idx = 0
    /\ start_time = None
    /\ total_commits = 0
    /\ successful_commits = 0
    /\ repo = FALSE
    /\ is_empty_repo = FALSE
    /\ initial_commit_done = FALSE
    /\ history = 0
    /\ dirty = FALSE
    /\ has_remote = FALSE
    /\ readme = "absent"
    /\ setup = NoSetup
    /\ running = FALSE
    /\ pc = "unit"
    /\ now = 0
    /\ wake_at = 0
    /\ signals = 0
    /\ faults = {}
    /\ outcome = NoOutcome
    /\ waits_returned = 0
    /\ cycles_started = 0
    /\ in_flight = 0
    /\ caller = NoCall
    /\ health = NoHealth
    /\ generated = NoMessage

\* generate_new_schedule(start_from) on the fresh tracker, for a start time
\* 0..MaxStart
CallGenerate ==
    /\ start_time = None
    /\ \E t \in 0..MaxStart : GenerateNewSchedule(t)
    /\ UNCHANGED <<agentVars, appVars, faults, callVars, obsVars>>

GenNext == CallGenerate

GenSpec == GenInit /\ [][GenNext]_vars

(* ------------------------- the tracker on its own --------------------- *)

\* SchedulerManager(): the generator built from the settings
TrackerInit ==
    /\ min_commits = AppMinCount
    /\ max_commits = AppMaxCount
    /\ window_hours = COMMIT_WINDOW_HOURS
    /\ randomize = TRUE
    /\ num_commits = 0
    /\ schedule = <<>>
    /\ next_commit_idx = 0
    /\ start_time = None
    /\ total_commits = 0
    /\ successful_commits = 0
    /\ repo = FALSE
    /\ is_empty_repo = FALSE
    /\ initial_commit_done = FALSE
    /\ history = 0
    /\ dirty = FALSE
    /\ has_remote = FALSE
    /\ readme = "absent"
    /\ setup = NoSetup
    /\ running = FALSE
    /\ pc = "tracker"
    /\ now = 0
    /\ wake_at = 0
    /\ signals = 0
    /\ faults = {}
    /\ outcome = NoOutcome
    /\ waits_returned = 0
    /\ cycles_started = 0
    /\ in_flight = 0
    /\ caller = NoCall
    /\ health = NoHealth
    /\ generated = NoMessage

\* the instants the clock is read at: a timestamp of the schedule, the end
\* of the window
Instants ==
    {schedule[k] : k \in 1..Len(schedule)}
      \cup (IF start_time # None
            THEN {start_time[1] + COMMIT_WINDOW_HOURS * SecondsPerHour}
            ELSE {})

\* time passes between two calls
Tick ==
    /\ pc = "tracker"
    /\ \E t \in Instants : t > now /\ now' = t
    /\ UNCHANGED <<genVars, num_commits, trackerVars, agentVars,
                   running, pc, wake_at, signals, faults, obsVars, callVars>>

\* generate_new_schedule(datetime.now())
TrackerGenerate ==
    /\ pc = "tracker"
    /\ caller.n < MaxCalls
    /\ caller.windows < MaxWindows
    /\ GenerateNewSchedule(now)
    /\ caller' = [n |-> caller.n + 1, op |-> "generate", success |-> FALSE,
                  start |-> now, result |-> None,
                  at |-> 0, before |-> None, before_at |-> 0,
                  windows |-> caller.windows + 1, marks |-> 0]
    /\ UNCHANGED <<agentVars, appVars, faults, obsVars, health, generated>>

\* mark_commit_completed(success)
TrackerMark ==
    /\ pc = "tracker"
    /\ caller.n < MaxCalls
    /\ \E success \in BOOLEAN :
         /\ MarkCommitCompleted(success)
         /\ caller' = [caller EXCEPT !.n = @ + 1, !.op = "mark",
                                     !.success = success, !.result = None,
                                     !.at = 0, !.before = None,
                                     !.before_at = 0, !.marks = @ + 1]
    /\ UNCHANGED <<genVars, num_commits, agentVars, appVars, faults, obsVars, health, generated>>

\* get_schedule_progress()
TrackerProgress ==
    /\ pc = "tracker"
    /\ caller.n < MaxCalls
    /\ caller' = [caller EXCEPT !.n = @ + 1, !.op = "progress",
                                !.result = Some(GetScheduleProgress(now)),
                                !.at = now,
                                !.before = caller.result,
                                !.before_at = caller.at]
    /\ UNCHANGED <<genVars, num_commits, trackerVars, agentVars, appVars,
                   faults, obsVars, health, generated>>

TrackerNext == Tick \/ TrackerGenerate \/ TrackerMark \/ TrackerProgress

TrackerSpec == TrackerInit /\ [][TrackerNext]_vars

(* ------------------- the commit message on its own ------------------- *)

\* the length a commit message is held to, and the length kept of a longer one
MaxMessageLength == 72
KeptLength == 69
Ellipsis == <<".", ".", ".">>

\* the bodies and the edges of the responses followed through
MaxEdge == 2
BodyLengths == {0, 1, KeptLength, MaxMessageLength, MaxMessageLength + 1}
SecondLengths == {0, 1}

Whitespace == {" ", "\n"}
Quotes == {"\"", "'"}

\* str.strip(chars), by its two ends
RECURSIVE LStrip(_, _)
LStrip(s, chars) ==
    IF s = <<>> \/ Head(s) \notin chars THEN s ELSE LStrip(Tail(s), chars)
RECURSIVE RStrip(_, _)
RStrip(s, chars) ==
    IF s = <<>> \/ s[Len(s)] \notin chars
    THEN s
    ELSE RStrip(SubSeq(s, 1, Len(s) - 1), chars)
Strip(s, chars) == RStrip(LStrip(s, chars), chars)

\* message.split('\n')[0]
RECURSIVE FirstLine(_)
FirstLine(s) ==
    IF s = <<>> \/ Head(s) = "\n" THEN <<>> ELSE <<Head(s)>> \o FirstLine(Tail(s))

HasNewline(s) == \E i \in 1..Len(s) : s[i] = "\n"

\* the default message: "Update: " and strftime('%Y-%m-%d %H:%M') of an instant
DefaultText ==
    <<"U", "p", "d", "a", "t", "e", ":", " ">>
      \o <<"2", "0", "2", "6", "-", "0", "1", "-", "0", "1", " ",
           "0", "0", ":", "0", "0">>

\* a cut that keeps MaxMessageLength characters and adds the ellipsis to them
CutToMax(line) ==
    IF Len(line) > MaxMessageLength
    THEN SubSeq(line, 1, MaxMessageLength) \o Ellipsis
    ELSE line

\* message[:69] + "..." for a message longer than 72
Cut(line) ==
    IF Len(line) > MaxMessageLength
    THEN SubSeq(line, 1, KeptLength) \o Ellipsis
    ELSE line

\* the clean-up of a non-empty response
Sanitize(response) ==
    LET stripped == Strip(Strip(response, Whitespace), Quotes)
        line == IF HasNewline(stripped)
                THEN Strip(FirstLine(stripped), Whitespace)
                ELSE stripped
    IN  Cut(line)

\* generate_commit_message, from what generate_with_llm returned
GenerateCommitMessage(response) ==
    LET message == IF response # <<>> THEN Sanitize(response) ELSE response
    IN  IF message # <<>> THEN message ELSE DefaultText

\* the responses: edges of whitespace and quotes around a first line, a
\* second line or none
RECURSIVE Repeated(_, _)
Repeated(c, n) == IF n = 0 THEN <<>> ELSE <<c>> \o Repeated(c, n - 1)
Edges == UNION {[1..n -> {" ", "\n", "\""}] : n \in 0..MaxEdge} \cup {<<"'">>}
Responses ==
    {lead \o Repeated("a", n) \o sep \o Repeated("b", m) \o trail :
        lead \in Edges, trail \in Edges, n \in BodyLengths,
        sep \in {<<>>, <<"\n">>, <<" ">>, <<"\"", "\n">>}, m \in SecondLengths}

MessageInit ==
    /\ min_commits = AppMinCount
    /\ max_commits = AppMaxCount
    /\ window_hours = COMMIT_WINDOW_HOURS
    /\ randomize = TRUE
    /\ num_commits = 0
    /\ schedule = <<>>
    /\ next_commit_idx = 0
    /\ start_time = None
    /\ total_commits = 0
    /\ successful_commits = 0
    /\ repo = TRUE
    /\ is_empty_repo = FALSE
    /\ initial_commit_done = FALSE
    /\ history = 1
    /\ dirty = FALSE
    /\ has_remote = FALSE
    /\ readme = "absent"
    /\ setup = NoSetup
    /\ running = FALSE
    /\ pc = "message"
    /\ now = 0
    /\ wake_at = 0
    /\ signals = 0
    /\ faults = {}
    /\ outcome = NoOutcome
    /\ waits_returned = 0
    /\ cycles_started = 0
    /\ in_flight = 0
    /\ caller = NoCall
    /\ health = NoHealth
    /\ generated \in {[NoMessage EXCEPT !.response = r] : r \in Responses}

\* generate_commit_message() with the LLM manager returning the response
CallGenerateMessage ==
    /\ pc = "message"
    /\ ~generated.called
    /\ generated' = [generated EXCEPT
                        !.called = TRUE,
                        !.message = GenerateCommitMessage(generated.response)]
    /\ UNCHANGED <<genVars, num_commits, trackerVars, agentVars, appVars, faults,
                   obsVars, caller, health>>

MessageNext == CallGenerateMessage

MessageSpec == MessageInit /\ [][MessageNext]_vars

(* ------------------- the loop at the end of its window ---------------- *)

\* the forward walk when every draw is the longest interval and no cluster
\* is drawn
RECURSIVE LongWalk(_, _, _, _)
LongWalk(times, cur, num, end) ==
    IF Len(times) < num /\ cur < end
    THEN LongWalk(Append(times, cur),
                  cur + Interval(BaseIntervalMax, FactorMaxTenths), num, end)
    ELSE times

\* the schedules generate_commit_schedule returns after that walk
LateSchedules(start, num) ==
    UNION {JitterAll(SortTimes(padded), start, EndTime(start)) :
             padded \in PadTo(Truncate(LongWalk(<<>>, start, num, EndTime(start)),
                                       num),
                              num, start)}

\* the agent that opened a repository with one commit and an origin, the
\* cycle without a fault, and the report of the immediate commit
OpenedAgent ==
    [repo |-> TRUE, is_empty_repo |-> FALSE, initial_commit_done |-> FALSE,
     history |-> 1, dirty |-> FALSE, has_remote |-> TRUE, readme |-> "absent"]
PlainCycle ==
    [file_ok |-> TRUE, fault |-> "none", script |-> <<[fault |-> "none", bootstrap |-> "ok"]>>,
     pull |-> "ok", content |-> "article", llm |-> "text"]
FirstReport == Execute(OpenedAgent, PlainCycle)

\* run, after initialize and the immediate commit, MIN_COMMITS_PER_DAY and
\* MAX_COMMITS_PER_DAY both set to LateCommits
LateInit ==
    /\ min_commits = LateCommits
    /\ max_commits = LateCommits
    /\ window_hours = COMMIT_WINDOW_HOURS
    /\ randomize = TRUE
    /\ num_commits = 0
    /\ schedule = <<>>
    /\ next_commit_idx = 0
    /\ start_time = None
    /\ total_commits = 0
    /\ successful_commits = 0
    /\ repo = FirstReport.agent.repo
    /\ is_empty_repo = FirstReport.agent.is_empty_repo
    /\ initial_commit_done = FirstReport.agent.initial_commit_done
    /\ history = FirstReport.agent.history
    /\ dirty = FirstReport.agent.dirty
    /\ has_remote = FirstReport.agent.has_remote
    /\ readme = FirstReport.agent.readme
    /\ setup = [path |-> "opened", ok |-> TRUE, local |-> TRUE, url |-> TRUE,
                had |-> 1, listed |-> TRUE, remote |-> "none"]
    /\ running = FALSE
    /\ pc = "pause"
    /\ now = MinCycleSeconds
    /\ wake_at = 0
    /\ signals = 0
    /\ faults = {}
    /\ outcome = Recorded(OpenedAgent, FirstReport)
    /\ waits_returned = 0
    /\ cycles_started = 0
    /\ in_flight = 0
    /\ caller = NoCall
    /\ health = NoHealth
    /\ generated = NoMessage

\* run: the pause; run_scheduled_commits up to its loop, the schedule one of
\* LateSchedules
StartLate ==
    /\ pc = "pause"
    /\ now' = now + StartPauseSeconds
    /\ \E s \in LateSchedules(now + StartPauseSeconds, LateCommits) :
         /\ num_commits' = LateCommits
         /\ schedule' = s
         /\ next_commit_idx' = 0
         /\ start_time' = Some(now + StartPauseSeconds)
         /\ UNCHANGED <<genVars, total_commits, successful_commits>>
    /\ running' = TRUE
    /\ pc' = "check"
    /\ UNCHANGED <<agentVars, wake_at, signals, faults, callVars, obsVars>>

LateNext ==
    \/ SignalHandler
    \/ StartLate
    \/ LoopExit
    \/ WaitDue
    \/ WaitSleep
    \/ WakeUp
    \/ FinishCycle

LateSpec == LateInit /\ [][LateNext]_vars

(* ----------------------------- properties ----------------------------- *)

\* a schedule has been generated
Generated == start_time # None
WindowStart == start_time[1]
WindowEnd == EndTime(start_time[1])

\* C1: the schedule generate_commit_schedule returns with randomize = true
\* is sorted ascending: no timestamp is below its predecessor.
C1_SortedAscending ==
    (Generated /\ randomize) =>
        \A k \in 1..(Len(schedule) - 1) : schedule[k] <= schedule[k + 1]

\* C2: with randomize = true the returned schedule has exactly the length
\* of the count drawn for the call, which lies in min_commits..max_commits.
C2_LengthIsTargetCount ==
    (Generated /\ randomize) =>
        /\ Len(schedule) = num_commits
        /\ min_commits <= num_commits
        /\ num_commits <= max_commits

\* a padded schedule: the walk never appends the end of the window itself
C2_Padded ==
    /\ Generated /\ randomize
    /\ Len(schedule) >= 2
    /\ \E k \in 1..Len(schedule) : schedule[k] = WindowEnd

\* C3: every timestamp of the returned schedule lies in
\* [start, start + duration]; a jitter leaving the window is discarded.
C3_WithinWindow ==
    Generated =>
        \A k \in 1..Len(schedule) :
            WindowStart <= schedule[k] /\ schedule[k] <= WindowEnd

\* timestamps on both edges of the window, where a jitter can leave it
C3_OnBothEdges ==
    /\ Generated /\ randomize
    /\ \E k \in 1..Len(schedule) : schedule[k] = WindowStart
    /\ \E k \in 1..Len(schedule) : schedule[k] = WindowEnd

\* C4: with randomize = false the schedule holds max_commits timestamps,
\* the i-th (from 0) at start + i * (duration / max_commits); the schedule
\* is thereby a function of the start time and the configuration, so two
\* calls with the same start time return the same schedule.
C4_EvenlySpaced ==
    (Generated /\ ~randomize) =>
        /\ Len(schedule) = max_commits
        /\ \A k \in 1..Len(schedule) :
             max_commits * (schedule[k] - WindowStart)
               = (k - 1) * window_hours * SecondsPerHour

\* an even schedule of several timestamps
C4_EvenGenerated == Generated /\ ~randomize /\ Len(schedule) >= 2

\* C5: a shutdown request delivered while the loop is suspended in
\* wait_for_next_commit makes the loop exit without another commit cycle.
C5_NoCycleAfterShutdown ==
    [][(pc = "sleeping" /\ ~running) => pc' # "executing"]_vars

\* C6: a shutdown request delivered during the wait makes the wait return
\* within a short delay that does not depend on the time left until the due
\* timestamp.  The clock stands still in a suspended state, so now is the
\* time of the request when running is false there; the short delay is
\* taken as the loop's own short pause.
C6_WaitReturnsAtOnce ==
    [][(pc = "sleeping" /\ ~running /\ pc' # "sleeping")
          => now' - now <= ErrorPauseSeconds]_vars

\* C7: a normal cycle whose commit/push raised the HEAD error reports the
\* outcome of the one bootstrap attempt: success if the initial commit was
\* created, else failure with the message the attempt failed with.
C7_ReportsBootstrapOutcome ==
    (outcome.path = "normal" /\ outcome.head_error) =>
        /\ outcome.success = outcome.bootstrap_created
        /\ ~outcome.success => outcome.message = InitialCommitError

\* C8: within one cycle the recovery path is entered at most once.
C8_AtMostOneRecovery == outcome.recoveries <= 1

\* C9: a failed cycle (failure returned, or an unexpected error raised in
\* it) is marked as attempted and not succeeded and the loop goes back to
\* its condition; the loop ends only when shutdown was requested, the window
\* has elapsed or the schedule is used up.
C9_FailedCycleGoesOn ==
    [][/\ (pc = "executing" /\ pc' # "executing" /\ ~outcome'.success) =>
            /\ pc' = "check"
            /\ next_commit_idx' = next_commit_idx + 1
            /\ total_commits' = total_commits + 1
            /\ successful_commits' = successful_commits
       /\ (pc = "check" /\ pc' = "done") =>
            \/ ~running
            \/ now >= WindowStart + COMMIT_WINDOW_HOURS * SecondsPerHour
            \/ next_commit_idx >= Len(schedule)]_vars

\* a cycle in flight after a cycle that raised an unexpected error
C9_CycleAfterFailure ==
    /\ pc = "executing"
    /\ total_commits >= 1
    /\ successful_commits = 0
    /\ outcome.message = UnexpectedError

\* C10: every timestamp wait_for_next_commit returned is followed by exactly
\* one cycle and one mark_commit_completed before the next wait begins, and
\* at most one cycle is in flight.
C10_OneCyclePerWait ==
    /\ in_flight \in {0, 1}
    /\ in_flight = 1 <=> pc = "executing"
    /\ cycles_started = waits_returned
    /\ total_commits + in_flight = waits_returned

\* a second wait under way after a completed cycle
C10_SecondWait == pc = "sleeping" /\ total_commits >= 1

\* a call of the tracker on its own has just returned
Called(op) == caller'.n = caller.n + 1 /\ caller'.op = op

\* C11: after generate_new_schedule, whatever the tracker held before, the
\* cursor is 0, both counters are 0, the window start is the given start and
\* the schedule is the one just generated for that start.
C11_FreshWindow ==
    [][Called("generate") =>
          /\ next_commit_idx' = 0
          /\ total_commits' = 0
          /\ successful_commits' = 0
          /\ start_time' = Some(caller'.start)
          /\ schedule' \in GenerateCommitSchedule(caller'.start, num_commits')]_vars

\* C12: when wait_for_next_commit returns a timestamp the clock has reached
\* it, whatever the jitter drawn, and the time slept is never negative.
C12_NeverResumedEarly ==
    [][(pc # "executing" /\ pc' = "executing") =>
          /\ now' >= schedule[next_commit_idx + 1]
          /\ now' - now >= 0]_vars

\* C13: in every state of a run of the loop (generate_new_schedule, then
\* wait / cycle / mark_commit_completed, failed cycles and the used-up
\* schedule included) the cursor lies in 0..len(schedule).
C13_CursorInSchedule ==
    0 <= next_commit_idx /\ next_commit_idx <= Len(schedule)

\* the schedule used up, its last cycle having failed
C13_UsedUpAfterFailure ==
    /\ Generated
    /\ Len(schedule) >= 2
    /\ next_commit_idx = Len(schedule)
    /\ ~outcome.success
    /\ pc = "done"

\* the window has elapsed; the cursor has consumed the whole schedule
WindowElapsed ==
    Generated /\ now >= WindowStart + COMMIT_WINDOW_HOURS * SecondsPerHour
ScheduleUsedUp == next_commit_idx >= Len(schedule)

\* C14: in every tracker state should_stop() is true if and only if the
\* window has elapsed or the cursor has consumed the whole schedule.
C14_StopsIffElapsedOrUsedUp ==
    ShouldStop(now) <=> (WindowElapsed \/ ScheduleUsedUp)

\* C14 as amended: once a window has been started should_stop() is true if
\* and only if the window has elapsed or the cursor has consumed the whole
\* schedule; before any window has been started it is false.
C14_StopsOnceStarted ==
    IF Generated
    THEN ShouldStop(now) <=> (WindowElapsed \/ ScheduleUsedUp)
    ELSE ~ShouldStop(now)

\* the clock on the last instant of the window, entries still to come
C14_AtWindowEnd ==
    /\ Generated
    /\ now = WindowStart + COMMIT_WINDOW_HOURS * SecondsPerHour
    /\ next_commit_idx < Len(schedule)

\* C15: mark_commit_completed(success) adds one to the cursor and one to
\* total_commits, adds one to successful_commits if success is true and
\* leaves it otherwise, and leaves the schedule and start_time as they were.
C15_MarkFrame ==
    [][Called("mark") =>
          /\ next_commit_idx' = next_commit_idx + 1
          /\ total_commits' = total_commits + 1
          /\ successful_commits' =
               successful_commits + (IF caller'.success THEN 1 ELSE 0)
          /\ schedule' = schedule
          /\ start_time' = start_time]_vars

\* a failure marked after a success, in a started window
C15_FailureAfterSuccess ==
    /\ Generated
    /\ caller.op = "mark" /\ ~caller.success
    /\ successful_commits >= 1
    /\ total_commits > successful_commits

\* C16: in every tracker state the snapshot get_schedule_progress returns
\* has completed + remaining = total_scheduled; so has every snapshot a
\* caller was handed.
C16_CompletedPlusRemaining ==
    /\ GetScheduleProgress(now).completed + GetScheduleProgress(now).remaining
         = GetScheduleProgress(now).total_scheduled
    /\ caller.op = "progress" =>
         caller.result[1].completed + caller.result[1].remaining
           = caller.result[1].total_scheduled

\* a snapshot taken in mid-schedule, the clock past an entry not yet marked
C16_MidSchedule ==
    /\ caller.op = "progress"
    /\ caller.result[1].completed >= 1
    /\ caller.result[1].remaining >= 1
    /\ caller.result[1].upcoming < caller.result[1].remaining

\* C17: after generate_new_schedule, len(schedule) calls of
\* mark_commit_completed, with any arguments, leave a tracker whose
\* should_stop() is true and whose get_next_commit_time() is None, whatever
\* the clock reads.
C17_UsedUpStops ==
    (Generated /\ caller.marks = Len(schedule)) =>
        ShouldStop(now) /\ GetNextCommitTime = None

\* the last entry of a schedule marked, as a failure, inside the window
C17_LastMarked ==
    /\ Generated /\ ~WindowElapsed
    /\ caller.op = "mark" /\ ~caller.success
    /\ Len(schedule) >= 2
    /\ caller.marks = Len(schedule)

\* two get_schedule_progress calls with no other call between them
TwoSnapshots == caller.op = "progress" /\ caller.before # None

\* C18: two get_schedule_progress calls with no mark_commit_completed and
\* no generate_new_schedule between them return the same value in every
\* field, upcoming and next_commit included.
C18_SameSnapshot == TwoSnapshots => caller.result = caller.before

\* a schedule entry came due after the first call and by the second
CameDueBetween ==
    \E k \in 1..Len(schedule) :
        caller.before_at < schedule[k] /\ schedule[k] <= caller.at

\* C18 as amended: the two calls return the same total_scheduled, completed,
\* remaining, successful and window_end; upcoming and next_commit are the
\* same too when no schedule entry has come due between the calls, and
\* upcoming is smaller at the second call when one has.
C18_SameButForTheClock ==
    TwoSnapshots =>
        LET first == caller.before[1]
            second == caller.result[1]
        IN  /\ second.total_scheduled = first.total_scheduled
            /\ second.completed = first.completed
            /\ second.remaining = first.remaining
            /\ second.successful = first.successful
            /\ second.window_end = first.window_end
            /\ ~CameDueBetween => second = first
            /\ CameDueBetween => second.upcoming < first.upcoming

\* a second snapshot taken after the last entry still ahead came due
C18_EntryCameDue ==
    /\ TwoSnapshots /\ CameDueBetween
    /\ caller.before[1].completed >= 1
    /\ caller.result[1].next_commit = None

\* execute() has just returned to a caller of the agent on its own
CycleRan == cycles_started' = cycles_started + 1

C20_PushFailureKeepsBootstrap ==
    [][/\ (CycleRan /\ outcome'.message = PushFailed) =>
            /\ outcome'.path = "bootstrap"
            /\ ~outcome'.success
            /\ ~is_empty_repo' /\ initial_commit_done'
            /\ history' = history + 1
       /\ (CycleRan /\ outcome.message = PushFailed) =>
            /\ outcome'.path = "normal"
            /\ outcome'.bootstrap_created => outcome'.head_error]_vars

\* the first commit made, its push failed
C20_PushFailed ==
    /\ outcome.message = PushFailed
    /\ has_remote /\ history = 1
    /\ cycles_started = 1

\* a scheduled cycle of the loop has ended
CycleEnded == pc = "executing" /\ pc' = "check"

\* C21: a normal cycle that finds nothing staged reports a failure with the
\* "no changes" message, makes no commit, attempts no push, leaves the
\* lifecycle flags as they were, and the tracker counts it as attempted and
\* not as successful.
C21_NoChangesCycle ==
    [][(CycleEnded /\ outcome'.path = "normal" /\ outcome'.nothing_staged) =>
          /\ ~outcome'.success
          /\ outcome'.message = NoChanges
          /\ history' = history
          /\ ~outcome'.push_attempted
          /\ is_empty_repo' = is_empty_repo
          /\ initial_commit_done' = initial_commit_done
          /\ repo' = repo
          /\ total_commits' = total_commits + 1
          /\ successful_commits' = successful_commits
          /\ next_commit_idx' = next_commit_idx + 1]_vars

\* a scheduled normal cycle found nothing staged after an earlier cycle of
\* the window had committed
C21_NothingStaged ==
    /\ pc = "check"
    /\ outcome.path = "normal" /\ outcome.nothing_staged
    /\ total_commits = 2 /\ successful_commits = 1

\* setup is over and no cycle has run
SetupOver == pc \in {"immediate", "done"} /\ outcome = NoOutcome

\* the working copy held version-control metadata, or the clone passed
OpenedOrCloned == setup.ok /\ (setup.local \/ setup.path = "cloned")

\* C22 as stated: after setup on a local working copy with version-control
\* metadata, or after a successful clone, is_empty_repo is set exactly when
\* the history is empty.
C22_StateFromHistory ==
    (SetupOver /\ OpenedOrCloned) =>
        /\ is_empty_repo <=> history = 0
        /\ ~initial_commit_done

\* C22: after such a setup is_empty_repo is set exactly when the history is
\* empty if the commits could be listed, and is set whatever the history if
\* the working copy could not be opened or its commits not listed.
C22_StateFromListedHistory ==
    (SetupOver /\ OpenedOrCloned) =>
        /\ repo /\ ~initial_commit_done
        /\ IF setup.listed
           THEN is_empty_repo <=> history = 0
           ELSE is_empty_repo

\* a working copy with a commit whose commits could not be listed
C22_HistoryNotListed ==
    /\ SetupOver /\ OpenedOrCloned
    /\ setup.path = "opened" /\ ~setup.listed
    /\ history = 1 /\ is_empty_repo

\* no local copy and no clone: _initialize_new_repo was entered
CloneFailed == ~setup.local /\ setup.path \in {"initialized", "failed"}

\* C23 as stated: with no local copy and a failed clone, setup succeeds with
\* a new empty repository, the remote configured when repo_url is set.
C23_NewRepoAlways ==
    (SetupOver /\ CloneFailed) =>
        /\ setup.ok /\ repo
        /\ is_empty_repo /\ ~initial_commit_done /\ history = 0
        /\ setup.url => has_remote

\* C23: with no local copy and a failed clone, setup succeeds with a new
\* empty repository whenever Repo.init passes, and the remote is configured
\* exactly when repo_url is set and adding it passes; when Repo.init fails,
\* setup fails and no repository handle is left.
C23_NewRepoWhenInitPasses ==
    (SetupOver /\ CloneFailed) =>
        IF setup.path = "initialized"
        THEN /\ setup.ok /\ repo
             /\ is_empty_repo /\ ~initial_commit_done /\ history = 0
             /\ has_remote <=> (setup.url /\ setup.remote = "added")
        ELSE ~setup.ok /\ ~repo

\* a new repository initialized after a failed clone, its remote added
C23_InitializedWithRemote ==
    /\ SetupOver /\ CloneFailed
    /\ setup.path = "initialized" /\ setup.url
    /\ repo /\ is_empty_repo /\ has_remote
    /\ pc = "immediate"

\* the cycle that env describes, had both providers answered
WithProviders(env) == [env EXCEPT !.content = "article", !.llm = "text"]

\* C24: a cycle in which the content agent yields nothing and the LLM
\* returns empty text ends as the same cycle with both providers answering
\* ends: the same success, the same repository, the same failure message;
\* when it succeeds the message reported is the default one, and the cycle
\* that has run so left a commit and a clean working tree.
C24_ProvidersNotFatal ==
    /\ \A env \in CycleEnvs(Agent) :
         (env.content = "none" /\ env.llm = "empty") =>
             LET r == Execute(Agent, env)
                 w == Execute(Agent, WithProviders(env))
             IN  /\ r.success = w.success
                 /\ r.agent = w.agent
                 /\ r.success => r.message = DefaultMessage
                 /\ ~r.success => r.message = w.message
    /\ (outcome.content = "none" /\ outcome.llm = "empty" /\ outcome.success) =>
           /\ outcome.message = DefaultMessage
           /\ history > 0
           /\ ~dirty

\* a normal cycle without either provider has committed with the default
\* message, after a bootstrap cycle without either provider
C24_PlaceholderCommitted ==
    /\ outcome.path = "normal" /\ outcome.success
    /\ outcome.content = "none" /\ outcome.llm = "empty"
    /\ outcome.message = DefaultMessage
    /\ initial_commit_done /\ history = 2

\* C25: health_check does not raise, and its report holds the error field
\* whenever a step of the introspection failed.
C25_FailureReported ==
    health.called =>
        /\ ~health.raised
        /\ health.failed # "none" => health.error

\* a report on a repository with history in which reading the branch failed
C25_BranchUnread ==
    /\ health.called /\ health.failed = "branch"
    /\ repo /\ ~is_empty_repo

\* the first line of a response once its edges are stripped, and that line
\* without the whitespace at its ends
FirstOf(response) == FirstLine(Strip(Strip(response, Whitespace), Quotes))
TrimmedOf(response) == Strip(FirstOf(response), Whitespace)

\* C26: the commit message is not empty, holds no newline and at most 72
\* characters; a first line of more than 72 characters is returned as 69 of
\* its characters and "...", a shorter one as it is, and a response that is
\* empty, or whose first line is empty once the edges are stripped, is
\* answered by the default message.
C26_MessageShape ==
    generated.called =>
        LET first == FirstOf(generated.response)
            trimmed == TrimmedOf(generated.response)
            message == generated.message
        IN  /\ message # <<>>
            /\ ~HasNewline(message)
            /\ Len(message) <= MaxMessageLength
            /\ Len(trimmed) > MaxMessageLength =>
                   /\ Len(message) = MaxMessageLength
                   /\ SubSeq(message, KeptLength + 1, MaxMessageLength) = Ellipsis
                   /\ SubSeq(message, 1, KeptLength)
                        \in {SubSeq(first, 1, KeptLength),
                             SubSeq(trimmed, 1, KeptLength)}
            /\ (trimmed # <<>> /\ Len(first) <= MaxMessageLength) =>
                   message \in {first, trimmed}
            /\ first = <<>> => message = DefaultText

\* a quoted response of two lines whose first line has 73 characters, cut
C26_LongLineCut ==
    /\ generated.called
    /\ HasNewline(Strip(generated.response, Whitespace))
    /\ Head(generated.response) = "\""
    /\ Len(TrimmedOf(generated.response)) = MaxMessageLength + 1
    /\ Len(generated.message) = MaxMessageLength

\* C27: the loop starts no commit cycle at or after the end of the window.
C27_NoCycleAfterWindow ==
    [][CycleRan => now' < WindowEnd]_vars

\* C28: once signal_handler has run, the loop condition that is read next
\* ends the loop: from it no wait is entered and no cycle started.
C28_ShutdownObserved ==
    [][(signals > 0 /\ pc = "check") =>
          (pc' # "sleeping" /\ pc' # "executing")]_vars

\* C29: the flags stand for one lifecycle state: is_empty_repo and
\* initial_commit_done are never both set, and without a repository handle
\* neither is.
C29_OneLifecycleState ==
    /\ ~(is_empty_repo /\ initial_commit_done)
    /\ ~repo => (~is_empty_repo /\ ~initial_commit_done)

\* C30: a normal cycle whose pull fails goes on to the content, the commit
\* and the push: it ends as the cycle does whose pull passed, and never with
\* the report of an exception that left the cycle at the pull.
C30_PullFailureGoesOn ==
    [][(CycleRan /\ outcome'.path = "normal"
          /\ outcome'.pull \notin {"ok", "skipped"}) =>
             /\ outcome'.pull \in {"no_upstream", "git_error"}
             /\ outcome'.content # "uncalled"]_vars

\* C31: in a normal cycle whose first push fails for want of an upstream,
\* one more push is made and it sets the upstream, and the cycle succeeds
\* exactly when that push passes; a first push failing with another error
\* ends the cycle as a failure with that error's message and no second push.
C31_PushRetriedForUpstream ==
    [][(CycleRan /\ outcome'.path = "normal") =>
          /\ outcome'.first_push = "no_upstream" =>
                /\ outcome'.pushes = 2 /\ outcome'.upstream_pushes = 1
                /\ outcome'.success <=> outcome'.last_push = "ok"
                /\ ~outcome'.success => outcome'.message = UpstreamError
          /\ outcome'.first_push = "error" =>
                /\ ~outcome'.success
                /\ outcome'.message = PushError
                /\ outcome'.pushes = 1 /\ outcome'.upstream_pushes = 0]_vars

\* a normal cycle that succeeded by its second push, the upstream set
C31_UpstreamEstablished ==
    /\ outcome.path = "normal" /\ outcome.success
    /\ outcome.first_push = "no_upstream" /\ outcome.pushes = 2
    /\ has_remote /\ ~dirty

\* C32: a bootstrap cycle leaves a README.md that the working copy held
\* before it as it was.
C32_ReadmeKept ==
    [][(CycleRan /\ outcome'.path = "bootstrap" /\ readme # "absent") =>
          readme' = readme]_vars

\* C33: a normal cycle whose push fails with an error other than the missing
\* upstream keeps its commit: the history has grown by one, the working tree
\* is clean, the lifecycle flags are as before, and the cycle is reported as
\* failed and counted as attempted and not as successful.
C33_CommitKeptWhenPushFails ==
    [][(CycleEnded /\ outcome'.path = "normal"
          /\ outcome'.first_push = "error") =>
             /\ ~outcome'.success
             /\ outcome'.message = PushError
             /\ history' = history + 1
             /\ ~dirty'
             /\ repo' = repo
             /\ is_empty_repo' = is_empty_repo
             /\ initial_commit_done' = initial_commit_done
             /\ total_commits' = total_commits + 1
             /\ successful_commits' = successful_commits]_vars

\* a scheduled normal cycle has committed and its push has failed
C33_PushFailedAfterCommit ==
    /\ pc = "check"
    /\ outcome.path = "normal" /\ outcome.first_push = "error"
    /\ total_commits = 1 /\ successful_commits = 0
    /\ history > setup.had

====
